---- MODULE Spec2Model ----
(***************************************************************************)
(* A model of aws-dbg: the command line tool that finds the CloudFormation *)
(* stacks whose name matches a pattern, lists their resources and opens    *)
(* the AWS console page of the resource the user picks.                    *)
(*                                                                         *)
(* The repository holds two builds of the program, src/unnamed/part_000    *)
(* (with the 8-stack guard and the exit codes) and src/index.ts (without   *)
(* them).  The variable build says which one runs.                         *)
(*                                                                         *)
(* A JavaScript string is modelled as the sequence of its characters, each *)
(* a one-character TLA+ string, so that comparison, replacement and        *)
(* concatenation are computed as the code computes them.                   *)
(***************************************************************************)
EXTENDS Integers, Sequences, FiniteSets, TLC

(***************************************************************************)
(* Bounds of the model.                                                    *)
(***************************************************************************)
\* The account holds at most this many stacks.
MaxStacks == 10
\* The user opens at most this many resources before cancelling.
MaxOpens == 2
\* The user ticks at most this many stacks in the multiselect.
MaxTicked == 3
\* At most this many calls of ListStackResources fail in a run.
MaxFailures == 1

(***************************************************************************)
(* Strings.                                                                *)
(***************************************************************************)
\* JavaScript's undefined, for an optional string.
undefined == <<"undefined:">>

\* array.indexOf(x), counted from 1, for an x the array holds.
IndexIn(s, c) == CHOOSE i \in 1..Len(s) : s[i] = c /\ \A j \in 1..(i - 1) : s[j] /= c

\* The UTF-16 code unit of a character: what < and > on strings compare.
CodeUnit ==
    "A" :> 65 @@ "B" :> 66 @@ "C" :> 67 @@ "D" :> 68 @@ "E" :> 69 @@ "F" :> 70 @@
    "G" :> 71 @@ "H" :> 72 @@ "I" :> 73 @@ "J" :> 74 @@ "K" :> 75 @@ "L" :> 76 @@
    "M" :> 77 @@ "N" :> 78 @@ "O" :> 79 @@ "P" :> 80 @@ "Q" :> 81 @@ "R" :> 82 @@
    "S" :> 83 @@ "T" :> 84 @@ "U" :> 85 @@ "V" :> 86 @@ "W" :> 87 @@ "X" :> 88 @@
    "Y" :> 89 @@ "Z" :> 90 @@ "a" :> 97 @@ "b" :> 98 @@ "c" :> 99 @@ "d" :> 100 @@
    "e" :> 101 @@ "f" :> 102 @@ "g" :> 103 @@ "h" :> 104 @@ "i" :> 105 @@ "j" :> 106 @@
    "k" :> 107 @@ "l" :> 108 @@ "m" :> 109 @@ "n" :> 110 @@ "o" :> 111 @@ "p" :> 112 @@
    "q" :> 113 @@ "r" :> 114 @@ "s" :> 115 @@ "t" :> 116 @@ "u" :> 117 @@ "v" :> 118 @@
    "w" :> 119 @@ "x" :> 120 @@ "y" :> 121 @@ "z" :> 122 @@ "0" :> 48 @@ "1" :> 49 @@
    "2" :> 50 @@ "3" :> 51 @@ "4" :> 52 @@ "5" :> 53 @@ "6" :> 54 @@ "7" :> 55 @@
    "8" :> 56 @@ "9" :> 57 @@ "#" :> 35 @@ "$" :> 36 @@ "&" :> 38 @@ "(" :> 40 @@
    ")" :> 41 @@ "-" :> 45 @@ "." :> 46 @@ "/" :> 47 @@ ":" :> 58 @@ ";" :> 59 @@
    "=" :> 61 @@ "?" :> 63 @@ "[" :> 91 @@ "]" :> 93 @@ " " :> 32

\* The character with its letter case folded: what the "i" flag compares.
Canonicalize ==
    "A" :> "a" @@ "B" :> "b" @@ "C" :> "c" @@ "D" :> "d" @@ "E" :> "e" @@ "F" :> "f" @@
    "G" :> "g" @@ "H" :> "h" @@ "I" :> "i" @@ "J" :> "j" @@ "K" :> "k" @@ "L" :> "l" @@
    "M" :> "m" @@ "N" :> "n" @@ "O" :> "o" @@ "P" :> "p" @@ "Q" :> "q" @@ "R" :> "r" @@
    "S" :> "s" @@ "T" :> "t" @@ "U" :> "u" @@ "V" :> "v" @@ "W" :> "w" @@ "X" :> "x" @@
    "Y" :> "y" @@ "Z" :> "z" @@ "a" :> "a" @@ "b" :> "b" @@ "c" :> "c" @@ "d" :> "d" @@
    "e" :> "e" @@ "f" :> "f" @@ "g" :> "g" @@ "h" :> "h" @@ "i" :> "i" @@ "j" :> "j" @@
    "k" :> "k" @@ "l" :> "l" @@ "m" :> "m" @@ "n" :> "n" @@ "o" :> "o" @@ "p" :> "p" @@
    "q" :> "q" @@ "r" :> "r" @@ "s" :> "s" @@ "t" :> "t" @@ "u" :> "u" @@ "v" :> "v" @@
    "w" :> "w" @@ "x" :> "x" @@ "y" :> "y" @@ "z" :> "z" @@ "0" :> "0" @@ "1" :> "1" @@
    "2" :> "2" @@ "3" :> "3" @@ "4" :> "4" @@ "5" :> "5" @@ "6" :> "6" @@ "7" :> "7" @@
    "8" :> "8" @@ "9" :> "9" @@ "#" :> "#" @@ "$" :> "$" @@ "&" :> "&" @@ "(" :> "(" @@
    ")" :> ")" @@ "-" :> "-" @@ "." :> "." @@ "/" :> "/" @@ ":" :> ":" @@ ";" :> ";" @@
    "=" :> "=" @@ "?" :> "?" @@ "[" :> "[" @@ "]" :> "]" @@ " " :> " "

\* a < b on strings: the first differing code unit decides, a proper prefix is less.
StrLess(a, b) ==
    LET n == IF Len(a) < Len(b) THEN Len(a) ELSE Len(b)
        differ == {i \in 1..n : a[i] /= b[i]}
        d == CHOOSE i \in differ : \A j \in differ : i <= j
    IN  IF differ = {} THEN Len(a) < Len(b)
        ELSE CodeUnit[a[d]] < CodeUnit[b[d]]

StartsWith(s, p) == Len(p) <= Len(s) /\ SubSeq(s, 1, Len(p)) = p

\* s.replace(p, r) with a string pattern: the first occurrence only.
RECURSIVE ReplaceFirst(_, _, _)
ReplaceFirst(s, p, r) ==
    IF StartsWith(s, p) THEN r \o SubSeq(s, Len(p) + 1, Len(s))
    ELSE IF s = <<>> THEN <<>>
    ELSE <<s[1]>> \o ReplaceFirst(Tail(s), p, r)

\* A replace without the flag g: the first occurrence of the character c only.
ReplaceOnlyFirst(s, c, r) ==
    IF \E i \in 1..Len(s) : s[i] = c
    THEN SubSeq(s, 1, IndexIn(s, c) - 1) \o r \o SubSeq(s, IndexIn(s, c) + 1, Len(s))
    ELSE s

\* s.replace(/c/g, r): every occurrence of the character c.
RECURSIVE ReplaceAll(_, _, _)
ReplaceAll(s, c, r) ==
    IF s = <<>> THEN <<>>
    ELSE (IF s[1] = c THEN r ELSE <<s[1]>>) \o ReplaceAll(Tail(s), c, r)

RECURSIVE Flatten(_)
Flatten(ss) == IF ss = <<>> THEN <<>> ELSE ss[1] \o Flatten(Tail(ss))

(***************************************************************************)
(* The resource types and the URL table.                                   *)
(***************************************************************************)
DynamoDBTable == <<"A", "W", "S", ":", ":", "D", "y", "n", "a", "m", "o", "D", "B", ":", ":", "T", "a", "b", "l", "e">>
LambdaFunction == <<"A", "W", "S", ":", ":", "L", "a", "m", "b", "d", "a", ":", ":", "F", "u", "n", "c", "t", "i", "o", "n">>
LogsLogGroup == <<"A", "W", "S", ":", ":", "L", "o", "g", "s", ":", ":", "L", "o", "g", "G", "r", "o", "u", "p">>
ApiGatewayRestApi == <<"A", "W", "S", ":", ":", "A", "p", "i", "G", "a", "t", "e", "w", "a", "y", ":", ":", "R", "e", "s", "t", "A", "p", "i">>
\* Two types the tool has no URL for.
S3Bucket == <<"A", "W", "S", ":", ":", "S", "3", ":", ":", "B", "u", "c", "k", "e", "t">>
IAMRole == <<"A", "W", "S", ":", ":", "I", "A", "M", ":", ":", "R", "o", "l", "e">>

\* An allow-list that also lets S3 buckets through, for which
\* constructResourceURL has no rule.
resourceTypeAllowListWithBucket == <<DynamoDBTable, LambdaFunction, LogsLogGroup, ApiGatewayRestApi, S3Bucket>>

resourceTypeAllowList == <<DynamoDBTable, LambdaFunction, LogsLogGroup, ApiGatewayRestApi>>

\* array.includes(x)
includes(array, x) == \E i \in 1..Len(array) : array[i] = x

defaultRegion == <<"a", "p", "-", "s", "o", "u", "t", "h", "e", "a", "s", "t", "-", "2">>
usEast1 == <<"u", "s", "-", "e", "a", "s", "t", "-", "1">>

\* A parameter with the default "unknown": the default replaces undefined only.
orUnknown(x) == IF x = undefined THEN <<"u", "n", "k", "n", "o", "w", "n">> ELSE x

\* The address of the console without the region in its host name.
baseUrlNoRegion(region) == <<"h", "t", "t", "p", "s", ":", "/", "/", "c", "o", "n", "s", "o", "l", "e", ".", "a", "w", "s", ".", "a", "m", "a", "z", "o", "n", ".", "c", "o", "m">>

baseUrl(region) == <<"h", "t", "t", "p", "s", ":", "/", "/">> \o region \o <<".", "c", "o", "n", "s", "o", "l", "e", ".", "a", "w", "s", ".", "a", "m", "a", "z", "o", "n", ".", "c", "o", "m">>

constructResourceURL(resourceType, resourceId, region) ==
    LET type == orUnknown(resourceType)
        id == orUnknown(resourceId)
    IN  IF type = DynamoDBTable
        THEN baseUrl(region) \o <<"/", "d", "y", "n", "a", "m", "o", "d", "b", "/", "h", "o", "m", "e", "?", "r", "e", "g", "i", "o", "n", "=">> \o region
             \o <<"#", "t", "a", "b", "l", "e", "s", ":", "s", "e", "l", "e", "c", "t", "e", "d", "=">> \o id \o <<";", "t", "a", "b", "=", "o", "v", "e", "r", "v", "i", "e", "w">>
        ELSE IF type = LambdaFunction
        THEN baseUrl(region) \o <<"/", "l", "a", "m", "b", "d", "a", "/", "h", "o", "m", "e", "?", "r", "e", "g", "i", "o", "n", "=">> \o region
             \o <<"#", "/", "f", "u", "n", "c", "t", "i", "o", "n", "s", "/">> \o id
        ELSE IF type = LogsLogGroup
        THEN baseUrl(region) \o <<"/", "c", "l", "o", "u", "d", "w", "a", "t", "c", "h", "/", "h", "o", "m", "e", "?", "r", "e", "g", "i", "o", "n", "=">> \o region
             \o <<"#", "l", "o", "g", "s", "V", "2", ":", "l", "o", "g", "-", "g", "r", "o", "u", "p", "s", "/", "l", "o", "g", "-", "g", "r", "o", "u", "p", "/">>
             \o ReplaceAll(id, "/", <<"$", "2", "5", "2", "F">>)
        ELSE IF type = ApiGatewayRestApi
        THEN baseUrl(region) \o <<"/", "a", "p", "i", "g", "a", "t", "e", "w", "a", "y", "/", "m", "a", "i", "n", "/", "a", "p", "i", "s", "/">> \o id
             \o <<"/", "r", "e", "s", "o", "u", "r", "c", "e", "s", "?", "a", "p", "i", "=">> \o id \o <<"&", "r", "e", "g", "i", "o", "n", "=">> \o region
        ELSE undefined

(***************************************************************************)
(* Filter and sort of openResource, and the choices of the picker.         *)
(***************************************************************************)
\* A filter that keeps every resource.
allowedAny(resource) == TRUE

\* The predicate of resources.filter(...).
allowed(resource) == includes(resourceTypeAllowList, resource.ResourceType)

RECURSIVE filter(_)
filter(resources) ==
    IF resources = <<>> THEN <<>>
    ELSE (IF allowed(resources[1]) THEN <<resources[1]>> ELSE <<>>)
         \o filter(Tail(resources))

\* The comparator given to sort: the resource types alone.
compare(a, b) ==
    IF StrLess(a.ResourceType, b.ResourceType) THEN -1
    ELSE IF StrLess(b.ResourceType, a.ResourceType) THEN 1
    ELSE 0

\* x put before the first element that compares greater or equal: a sort that
\* does not keep the order of equal elements.
insertBeforeEqual(s, x) ==
    LET notLess == {i \in 1..Len(s) : compare(s[i], x) >= 0}
        p == IF notLess = {} THEN Len(s) + 1
             ELSE CHOOSE i \in notLess : \A j \in notLess : i <= j
    IN  SubSeq(s, 1, p - 1) \o <<x>> \o SubSeq(s, p, Len(s))

\* x put into the sorted list s before the first element that compares greater.
insert(s, x) ==
    LET greater == {i \in 1..Len(s) : compare(s[i], x) > 0}
        p == IF greater = {} THEN Len(s) + 1
             ELSE CHOOSE i \in greater : \A j \in greater : i <= j
    IN  SubSeq(s, 1, p - 1) \o <<x>> \o SubSeq(s, p, Len(s))

\* Array.prototype.sort with the comparator above: a stable sort.
RECURSIVE sort(_)
sort(s) ==
    IF s = <<>> THEN <<>>
    ELSE insert(sort(SubSeq(s, 1, Len(s) - 1)), s[Len(s)])

filteredResourcesOf(resources) == sort(filter(resources))

\* The label of a choice: "[" type without its first "AWS::" "]: " logical id.
title(resource) ==
    <<"[">> \o ReplaceFirst(resource.ResourceType, <<"A", "W", "S", ":", ":">>, <<>>)
    \o <<"]", ":", " ">> \o resource.LogicalResourceId

choiceOf(resource, region) ==
    [title |-> title(resource),
     value |-> constructResourceURL(resource.ResourceType,
                                    resource.PhysicalResourceId, region)]

choicesOf(filtered, region) ==
    [i \in 1..Len(filtered) |-> choiceOf(filtered[i], region)]

(***************************************************************************)
(* The pattern of the stack matcher.  The patterns of the model are        *)
(* literal texts, and one text that is no regular expression.              *)
(***************************************************************************)
\* The nesting depth of the parentheses after s, or -1 once a ")" closes nothing.
RECURSIVE depth(_, _)
depth(s, d) ==
    IF d < 0 \/ s = <<>> THEN d
    ELSE depth(Tail(s), IF s[1] = "(" THEN d + 1 ELSE IF s[1] = ")" THEN d - 1 ELSE d)

\* new RegExp(pattern, "i") throws a SyntaxError unless this holds.
compiles(pattern) == depth(pattern, 0) = 0

fold(s) == [i \in 1..Len(s) |-> Canonicalize[s[i]]]

\* The test of a pattern compiled without the flag "i".
testCaseSensitive(pattern, name) ==
    \E i \in 0..(Len(name) - Len(pattern)) :
        SubSeq(name, i + 1, i + Len(pattern)) = pattern

\* matchRegex.test(name) for a literal pattern: an occurrence anywhere, letter
\* case ignored.
test(pattern, name) ==
    \E p \in {fold(pattern)}, n \in {fold(name)} :
        \E i \in 0..(Len(n) - Len(p)) : SubSeq(n, i + 1, i + Len(p)) = p

(***************************************************************************)
(* The world outside the program: the command lines, the answers typed at  *)
(* the prompts, the stacks of the account and the pages of their           *)
(* resources.                                                              *)
(***************************************************************************)
flagP == <<"-", "p">>
flagProfile == <<"-", "-", "p", "r", "o", "f", "i", "l", "e">>
flagM == <<"-", "m">>
flagMatch == <<"-", "-", "m", "a", "t", "c", "h">>
dev == <<"d", "e", "v">>

\* process.argv after the script name.
Argvs == {<<>>,
          <<flagP, dev>>,
          <<flagM, <<"a", "b">>>>,
          <<flagP, dev, flagM, <<"a">>>>,
          <<flagProfile, dev, flagMatch, <<"(">>>>,
          <<flagP, dev, flagM>>}

\* What the user may type at the match prompt; the empty text is one of them.
MatchAnswers == {<<>>, <<"a", "b">>, <<"x">>, <<"z">>, <<"(">>}

\* The branch name git reports, already without special characters.
BranchNames == {<<"a", "b">>}

\* The names of the stacks of the account, in the order DescribeStacks returns them.
StackNames == <<<<"A", "b", "0">>,
                <<"a", "B", "1">>,
                <<"a", "2">>,
                <<"x", "a", "3">>,
                <<"b", "4">>,
                <<"A", "5">>,
                <<"a", "6">>,
                <<"A", "B", "7">>,
                <<"a", "8">>,
                <<"b", "a", "9">>,
                <<"b", "1", "0">>,
                <<"c", "1", "1">>>>

NumStacks == IF MaxStacks < Len(StackNames) THEN MaxStacks ELSE Len(StackNames)

\* The answer of DescribeStacks for an account of n stacks.
StacksOf(n) == [i \in 1..n |-> [StackId |-> i, StackName |-> StackNames[i]]]

\* The pages ListStackResources returns for a stack, in cursor order.  Every
\* page but the last carries a NextToken; a page may come without
\* StackResourceSummaries.
token == <<"t">>
PagesOf(stack) ==
    CASE stack.StackId = 1 ->
           <<[NextToken |-> token, StackResourceSummaries |->
               <<[ResourceType |-> LambdaFunction, LogicalResourceId |-> <<"F", "n", "B">>,
                 PhysicalResourceId |-> <<"f", "n", "-", "b">>],
                 [ResourceType |-> DynamoDBTable, LogicalResourceId |-> <<"T", "b", "l">>,
                 PhysicalResourceId |-> <<"t", "b", "l">>]>>],
             [NextToken |-> token, StackResourceSummaries |->
               <<[ResourceType |-> S3Bucket, LogicalResourceId |-> <<"B", "k", "t">>,
                 PhysicalResourceId |-> <<"b", "k", "t">>],
                 [ResourceType |-> LambdaFunction, LogicalResourceId |-> <<"F", "n", "A">>,
                 PhysicalResourceId |-> <<"f", "n", "-", "a">>]>>],
             [StackResourceSummaries |->
               <<[ResourceType |-> LogsLogGroup, LogicalResourceId |-> <<"L", "g">>,
                 PhysicalResourceId |-> <<"/", "a", "w", "s", "/", "l", "a", "m", "b", "d", "a", "/", "m", "y", "-", "f", "n">>]>>]>>
      [] stack.StackId = 2 ->
           <<[StackResourceSummaries |->
               <<[ResourceType |-> ApiGatewayRestApi, LogicalResourceId |-> <<"A", "p", "i">>,
                 PhysicalResourceId |-> <<"a", "1", "b", "2">>],
                 [ResourceType |-> DynamoDBTable, LogicalResourceId |-> <<"A", "a", "a">>,
                 PhysicalResourceId |-> <<"t", "2">>]>>]>>
      [] stack.StackId = 3 ->
           <<[NextToken |-> token],
             [StackResourceSummaries |->
               <<[ResourceType |-> DynamoDBTable, LogicalResourceId |-> <<"T", "3">>,
                 PhysicalResourceId |-> <<"t", "3">>]>>]>>
      [] stack.StackId = 4 ->
           <<[StackResourceSummaries |->
               <<[ResourceType |-> IAMRole, LogicalResourceId |-> <<"R", "o", "l", "e">>,
                 PhysicalResourceId |-> <<"r", "o", "l", "e">>],
                 [ResourceType |-> S3Bucket, LogicalResourceId |-> <<"B", "4">>,
                 PhysicalResourceId |-> <<"b", "4">>]>>]>>
      [] stack.StackId = 5 -> <<[StackResourceSummaries |-> <<>>]>>
      [] stack.StackId = 6 ->
           <<[StackResourceSummaries |->
               <<[ResourceType |-> LambdaFunction, LogicalResourceId |-> <<"F", "n", "6">>,
                 PhysicalResourceId |-> undefined]>>]>>
      [] OTHER ->
           <<[StackResourceSummaries |->
               <<[ResourceType |-> IF stack.StackId % 2 = 0 THEN DynamoDBTable
                                                            ELSE LogsLogGroup,
                  LogicalResourceId |-> <<"R">> \o stack.StackName,
                  PhysicalResourceId |-> <<"/", "p">> \o stack.StackName]>>]>>

\* A page that takes the place of what was pushed before it.
pushPageReplacing(resources, page) ==
    IF "StackResourceSummaries" \in DOMAIN page
    THEN page.StackResourceSummaries
    ELSE <<>>

\* What page.StackResourceSummaries?.forEach(push) adds to resources.
pushPage(resources, page) ==
    IF "StackResourceSummaries" \in DOMAIN page
    THEN resources \o page.StackResourceSummaries
    ELSE resources

(***************************************************************************)
(* The state of a run.                                                     *)
(***************************************************************************)
VARIABLES
    build,              \* which build runs: "part_000" or "index"
    argv,               \* the command line
    env,                \* process.env.AWS_REGION, or undefined
    pc,                 \* where the run stands: "main", "prompt", "describing",
                        \* "draining", "exited" (process.exit was called) or
                        \* "returned" (findStacksByMatch returned from its catch)
    exitCode,           \* the code given to the operating system, -1 before that
    prompt,             \* the prompt on the screen, or the last one shown
    profile,            \* the global profile
    match,              \* the global match
    pattern,            \* the parameter match of findStacksByMatch
    region,             \* the region of the client and of the URLs
    Stacks,             \* the answer of DescribeStacks
    matchingStacks,     \* the matched stacks, then the working set
    responses,          \* per stack of the working set, the state of its drain
    flattenedResources, \* the merged resources
    filteredResources,  \* the filtered and sorted resources of the current picker
    choices,            \* the choices of the current picker
    opened,             \* the URL last handed to the browser
    log,                \* what was written to the terminal, in order
    netCalls,           \* how many CloudFormation calls were issued
    opens,              \* how many URLs were handed to the browser
    asked,              \* the names of the prompts shown, in order
    responseStacks,     \* the answers to the multiselect: the ticked choices
    listed,             \* the stacks listStackResources was called for
    overtaken,          \* a drain settled while a stack before it was pending
    openFailed,         \* a browser-open call has failed
    call                \* a function of the program applied on its own: its
                        \* name, its arguments and what it returned

vars == <<build, argv, env, pc, exitCode, prompt, profile, match, pattern, region,
          Stacks, matchingStacks, responses, flattenedResources, filteredResources,
          choices, opened, log, netCalls, opens, asked, responseStacks, listed,
          overtaken, openFailed, call>>

\* The state as one record, for the handlers below, which are functions from
\* state to state.
Cur == [build |-> build, argv |-> argv, env |-> env, pc |-> pc,
        exitCode |-> exitCode, prompt |-> prompt, profile |-> profile,
        match |-> match, pattern |-> pattern, region |-> region,
        Stacks |-> Stacks, matchingStacks |-> matchingStacks,
        responses |-> responses, flattenedResources |-> flattenedResources,
        filteredResources |-> filteredResources, choices |-> choices,
        opened |-> opened, log |-> log, netCalls |-> netCalls, opens |-> opens,
        asked |-> asked, responseStacks |-> responseStacks, listed |-> listed,
        overtaken |-> overtaken, openFailed |-> openFailed]

\* The step to the state s.
Continue(s) ==
  \E t \in {s} :
      /\ build' = t.build /\ argv' = t.argv /\ env' = t.env /\ pc' = t.pc
      /\ exitCode' = t.exitCode /\ prompt' = t.prompt /\ profile' = t.profile
      /\ match' = t.match /\ pattern' = t.pattern /\ region' = t.region
      /\ Stacks' = t.Stacks /\ matchingStacks' = t.matchingStacks
      /\ responses' = t.responses /\ flattenedResources' = t.flattenedResources
      /\ filteredResources' = t.filteredResources /\ choices' = t.choices
      /\ opened' = t.opened /\ log' = t.log /\ netCalls' = t.netCalls
      /\ opens' = t.opens /\ asked' = t.asked
      /\ responseStacks' = t.responseStacks /\ listed' = t.listed
      /\ overtaken' = t.overtaken /\ openFailed' = t.openFailed
      /\ call' = call

null == <<"null:">>
\* A value JavaScript takes as true in a condition.
truthy(x) == x \notin {undefined, null, <<>>}
\* a || b
or(a, b) == IF truthy(a) THEN a ELSE b

hasFlag(args, flag) == includes(args, flag)

getFlagValue(args, flag) ==
    IF hasFlag(args, flag) /\ IndexIn(args, flag) + 1 <= Len(args)
    THEN args[IndexIn(args, flag) + 1]
    ELSE null

\* console.log, console.warn, console.error and the final texts of the spinners:
\* the message is kept, without the values that follow it.
print(s, msg) == [s EXCEPT !.log = Append(@, msg)]

\* process.exit(code); process.exit() gives the code 0.
processExit(s, code) == [s EXCEPT !.pc = "exited", !.exitCode = code]

\* onCancel without its process.exit: the prompt stays.
onCancelNoExit(s) == print(s, "Cancelled by user. Exiting...")

onCancel(s) == processExit(print(s, "Cancelled by user. Exiting..."), 0)

\* await prompts({type, name, ...}, {onCancel})
prompts(s, type, name) ==
    [s EXCEPT !.pc = "prompt", !.prompt = [type |-> type, name |-> name],
              !.asked = Append(@, name)]

(***************************************************************************)
(* The program, from the last step back to the first.  Each definition is  *)
(* the code that runs from one await to the next one.                      *)
(***************************************************************************)
\* openResource up to its prompt.
openResource(s) ==
    LET filtered == filteredResourcesOf(s.flattenedResources)
    IN  prompts([s EXCEPT !.filteredResources = filtered,
                           !.choices = choicesOf(filtered, s.region)],
                 "autocomplete", "url")

\* openResource after its prompt: the URL is logged and handed to the browser;
\* openResource then runs again on the same resources.
opening(s, url) ==
    [print(s, "Opening URL") EXCEPT !.opened = url, !.opens = @ + 1]

\* What the runtime does with a rejected promise that has no handler: it
\* raises it as an uncaught exception, which ends the process with code 1 (the
\* default of Node.js from version 15 on), or it only writes a warning (the
\* default before, and --unhandled-rejections=warn).
UnhandledRejections == {"throw", "warn"}

\* The promise of open(response.url) is rejected.  openResource neither awaits
\* it nor gives it a catch, and the try of findStacksByMatch does not cover
\* it: the rejection is left to the runtime.
openRejected(s, mode) ==
    IF mode = "throw"
    THEN processExit(print([s EXCEPT !.openFailed = TRUE], "Uncaught exception"), 1)
    ELSE [s EXCEPT !.openFailed = TRUE]

\* The catch of findStacksByMatch.
catchFindStacksByMatch(s) ==
    IF s.build = "part_000"
    THEN processExit(print(s, "An error occurred:"), 1)
    ELSE [print(s, "An error occurred:") EXCEPT !.pc = "returned"]

\* The reduce with its concat turned round: val.concat(acc).
RECURSIVE reduceSwapped(_)
reduceSwapped(rs) ==
    IF rs = <<>> THEN <<>>
    ELSE reduceSwapped(Tail(rs))
         \o (IF rs[1].status = "failed" THEN <<>> ELSE rs[1].resources)

\* responses.reduce(...): the results concatenated in the order of responses,
\* an undefined result left out.
RECURSIVE reduce(_)
reduce(rs) ==
    IF rs = <<>> THEN <<>>
    ELSE (IF rs[1].status = "failed" THEN <<>> ELSE rs[1].resources)
         \o reduce(Tail(rs))

\* The step after Promise.all with a reduce that has no initial value: on an
\* empty array it throws, into the catch of findStacksByMatch.
afterPromiseAllNoInitial(s) ==
    IF s.responses = <<>> THEN catchFindStacksByMatch(s)
    ELSE LET flattened == reduce(s.responses)
         IN  IF Len(flattened) = 0
             THEN processExit(print(s, "No resources found for stack"), 0)
             ELSE openResource([print(s, "Resources found for match")
                                   EXCEPT !.flattenedResources = flattened])

\* findStacksByMatch after Promise.all.
afterPromiseAll(s) ==
    LET flattened == reduce(s.responses)
    IN  IF Len(flattened) = 0
        THEN processExit(print(s, "No resources found for stack"), 0)
        ELSE openResource([print(s, "Resources found for match")
                              EXCEPT !.flattenedResources = flattened])

\* Promise.all settles once no call of listStackResources is pending.
settled(rs) == \A i \in 1..Len(rs) : rs[i].status /= "pending"

whenSettled(s) == IF settled(s.responses) THEN afterPromiseAll(s) ELSE s

pendingBefore(rs, i) == \E j \in 1..(i - 1) : rs[j].status = "pending"

\* listStackResources, a page of stack i arrives: its resources are pushed, and
\* the paginator asks for the next page if the page carries a NextToken.
listStackResourcesPage(s, i) ==
    LET r == s.responses[i]
        page == PagesOf(s.matchingStacks[i])[r.page + 1]
        more == "NextToken" \in DOMAIN page
    IN  whenSettled(
          [s EXCEPT !.responses[i] =
                        [status |-> IF more THEN "pending" ELSE "done",
                         page |-> r.page + 1,
                         resources |-> pushPage(r.resources, page)],
                    !.netCalls = IF more THEN @ + 1 ELSE @,
                    !.overtaken = @ \/ (~more /\ pendingBefore(s.responses, i))])

\* listStackResources, the call for a page of stack i fails: its catch.
listStackResourcesCatch(s, i) ==
    IF s.build = "part_000"
    THEN processExit(print(s, "Error listing stack resources:"), 1)
    ELSE whenSettled([print(s, "Error listing stack resources:")
                         EXCEPT !.responses[i].status = "failed",
                                !.overtaken = @ \/ pendingBefore(s.responses, i)])

RECURSIVE printMatches(_, _)
printMatches(s, stacks) ==
    IF stacks = <<>> THEN s
    ELSE printMatches(print(s, "Match found for stack:"),
                      Tail(stacks))

\* findStacksByMatch from spinner.succeed("Stacks found") to Promise.all: one
\* call of listStackResources per stack of the working set, each asking for
\* its first page.
fetchResources(s) ==
    LET working == s.matchingStacks
    IN  whenSettled(
          [printMatches(print(s, "Stacks found"), working)
              EXCEPT !.pc = "draining",
                     !.responses = [i \in 1..Len(working) |->
                         [status |-> "pending", page |-> 0, resources |-> <<>>]],
                     !.listed = {working[i].StackName : i \in 1..Len(working)},
                     !.netCalls = @ + Len(working)])

\* Stacks.filter(stack => stack.StackName && matchRegex.test(stack.StackName))
RECURSIVE filterStacks(_, _)
filterStacks(stacks, p) ==
    IF stacks = <<>> THEN <<>>
    ELSE (IF truthy(stacks[1].StackName) /\ test(p, stacks[1].StackName)
          THEN <<stacks[1]>> ELSE <<>>)
         \o filterStacks(Tail(stacks), p)

\* The threshold off by one.
maxWithoutPromptPlusOne == 8 + 1

\* The number of matched stacks above which the user is asked to pick.
maxWithoutPrompt == 8

\* findStacksByMatch from the answer of DescribeStacks to its next await.
afterDescribeStacks(s, stacks) ==
    LET s1 == [s EXCEPT !.Stacks = stacks]
        matching == filterStacks(stacks, s.pattern)
        s2 == [s1 EXCEPT !.matchingStacks = matching]
    IN  IF Len(stacks) = 0
        THEN processExit(print(s1, "No stacks found. Exiting..."), 0)
        ELSE IF ~compiles(s.pattern) THEN catchFindStacksByMatch(s1)
        ELSE IF Len(matching) = 0
        THEN processExit(print(s2, "No matching stacks found. Exiting..."), 0)
        ELSE IF s.build = "part_000" /\ Len(matching) > maxWithoutPrompt
        THEN prompts(print(s2, "More than 8 stacks found. Please refine your search."),
                      "multiselect", "stacks")
        ELSE fetchResources(s2)

\* The values of the selected choices of the multiselect, in the order of the
\* choices.
selectedOf(stacks, picked) ==
    LET F[i \in 0..Len(stacks)] ==
            IF i = 0 THEN <<>>
            ELSE IF i \in picked THEN Append(F[i - 1], stacks[i]) ELSE F[i - 1]
    IN  F[Len(stacks)]

\* The step after the multiselect without the assignment of response.stacks.
afterSelectStacksUnassigned(s, picked) ==
    fetchResources([s EXCEPT !.responseStacks = Append(@, picked)])

\* findStacksByMatch after the multiselect: matchingStacks = response.stacks.
afterSelectStacks(s, picked) ==
    fetchResources([s EXCEPT !.matchingStacks = selectedOf(s.matchingStacks, picked),
                             !.responseStacks = Append(@, picked)])

\* The failure of DescribeStacks.
describeStacksFailed(s) ==
    IF s.build = "part_000"
    THEN processExit(print(s, "Error fetching stacks:"), 1)
    ELSE catchFindStacksByMatch(s)

\* findStacksByMatch up to its first await: DescribeStacks is sent.
findStacksByMatch(s, m) ==
    [s EXCEPT !.pattern = m, !.pc = "describing", !.netCalls = @ + 1]

\* main from the value of match on.  In the build index an empty match is
\* replaced by the branch name; in part_000 it ends the run.
afterMatch(s, m, branch) ==
    LET s1 == [s EXCEPT !.match = m,
                        !.region = or(s.env, defaultRegion)]
    IN  IF s.build = "part_000"
        THEN IF ~truthy(m)
             THEN processExit(print([s EXCEPT !.match = m],
                                    "No match provided. Exiting..."), 0)
             ELSE findStacksByMatch(s1, m)
        ELSE findStacksByMatch(s1, or(m, branch))

\* main from the value of profile on.
afterProfile(s, p, branch) ==
    LET matchFlag == hasFlag(s.argv, flagM) \/ hasFlag(s.argv, flagMatch)
        matchValue == IF matchFlag
                      THEN or(getFlagValue(s.argv, flagM), getFlagValue(s.argv, flagMatch))
                      ELSE null
        s1 == [s EXCEPT !.profile = p]
    IN  IF matchFlag /\ truthy(matchValue)
        THEN afterMatch(s1, matchValue, branch)
        ELSE prompts(s1, "text", "match")

\* main up to its first prompt; config is what getProfileFromConfigFile found.
main(s, config, branch) ==
    LET profileFlag == hasFlag(s.argv, flagP) \/ hasFlag(s.argv, flagProfile)
        profileValue == IF profileFlag
                        THEN or(getFlagValue(s.argv, flagP),
                                getFlagValue(s.argv, flagProfile))
                        ELSE null
    IN  IF profileFlag /\ truthy(profileValue)
        THEN afterProfile(s, profileValue, branch)
        ELSE IF config = "profiles" THEN prompts(s, "autocomplete", "profile")
        ELSE IF config = "none" THEN prompts(s, "text", "profile")
        ELSE prompts(print(s, "An error occurred while reading the AWS config file."),
                      "text", "profile")

(***************************************************************************)
(* The runs.                                                               *)
(***************************************************************************)
Builds == {"part_000", "index"}

\* The command line and the environment of the runs of the model.
Runs == {[argv |-> <<>>, env |-> undefined],
         [argv |-> <<flagP, dev>>, env |-> undefined],
         [argv |-> <<flagM, <<"a", "b">>>>, env |-> usEast1],
         [argv |-> <<flagP, dev, flagM, <<"a">>>>, env |-> undefined],
         [argv |-> <<flagProfile, dev, flagMatch, <<"(">>>>, env |-> undefined],
         [argv |-> <<flagP, dev, flagM>>, env |-> usEast1]}

Init ==
    /\ build \in Builds
    /\ \E run \in Runs : argv = run.argv /\ env = run.env
    /\ pc = "main"
    /\ exitCode = -1
    /\ prompt = [type |-> "none", name |-> "none"]
    /\ profile = undefined
    /\ match = undefined
    /\ pattern = undefined
    /\ region = undefined
    /\ Stacks = <<>>
    /\ matchingStacks = <<>>
    /\ responses = <<>>
    /\ flattenedResources = <<>>
    /\ filteredResources = <<>>
    /\ choices = <<>>
    /\ opened = undefined
    /\ log = <<>>
    /\ netCalls = 0
    /\ opens = 0
    /\ asked = <<>>
    /\ responseStacks = <<>>
    /\ listed = {}
    /\ overtaken = FALSE
    /\ openFailed = FALSE
    /\ call = [fn |-> "none"]

\* The program starts.
Start ==
    /\ pc = "main"
    /\ \E config \in {"profiles", "none", "error"}, branch \in BranchNames :
           Continue(main(Cur, config, branch))

\* The user answers the profile prompt.
AnswerProfile ==
    /\ pc = "prompt" /\ prompt.name = "profile"
    /\ \E branch \in BranchNames : Continue(afterProfile(Cur, dev, branch))

\* The user answers the match prompt.
AnswerMatch ==
    /\ pc = "prompt" /\ prompt.name = "match"
    /\ \E m \in MatchAnswers, branch \in BranchNames :
           Continue(afterMatch(Cur, m, branch))

\* The user cancels the prompt on the screen.
Cancel ==
    /\ pc = "prompt"
    /\ Continue(onCancel(Cur))

\* DescribeStacks fails.
DescribeStacksFails ==
    /\ pc = "describing"
    /\ Continue(describeStacksFailed(Cur))

\* DescribeStacks answers with the stacks of the account.
DescribeStacksReturns ==
    /\ pc = "describing"
    /\ \E n \in 0..NumStacks : Continue(afterDescribeStacks(Cur, StacksOf(n)))

\* The user submits the multiselect of the stacks.
SelectStacks ==
    /\ pc = "prompt" /\ prompt.name = "stacks"
    /\ \E picked \in {t \in SUBSET (1..Len(matchingStacks)) :
                         Cardinality(t) <= MaxTicked} :
           Continue(afterSelectStacks(Cur, picked))

\* The next page of a stack arrives.
PageArrives ==
    /\ pc = "draining"
    /\ \E i \in 1..Len(responses) :
           /\ responses[i].status = "pending"
           /\ Continue(listStackResourcesPage(Cur, i))

\* The call for the next page of a stack fails.
PageFails ==
    /\ pc = "draining"
    /\ \E i \in 1..Len(responses) :
           /\ responses[i].status = "pending"
           /\ Cardinality({j \in 1..Len(responses) : responses[j].status = "failed"})
                  < MaxFailures
           /\ Continue(listStackResourcesCatch(Cur, i))

\* The user picks a resource: opening, then openResource again.  The call of
\* openResource reads neither the log nor the opened URL, so it is computed
\* once for all the choices.
PickResource ==
    /\ pc = "prompt" /\ prompt.name = "url"
    /\ opens < MaxOpens
    /\ \E again \in {openResource(Cur)}, k \in 1..Len(choices) :
           Continue(opening(again, choices[k].value))

\* The browser-open call of a picked resource fails, while the picker is on
\* the screen again.  A runtime that has only warned once goes on doing so.
OpenFails ==
    /\ pc = "prompt" /\ prompt.name = "url"
    /\ opens > 0
    /\ \E mode \in UnhandledRejections :
           /\ mode = "throw" => ~openFailed
           /\ Continue(openRejected(Cur, mode))

Next ==
    \/ Start
    \/ AnswerProfile
    \/ AnswerMatch
    \/ Cancel
    \/ DescribeStacksFails
    \/ DescribeStacksReturns
    \/ SelectStacks
    \/ PageArrives
    \/ PageFails
    \/ PickResource
    \/ OpenFails

Spec == Init /\ [][Next]_vars

(***************************************************************************)
(* What the claims speak of.                                               *)
(***************************************************************************)
Ended == pc \in {"exited", "returned"}
LastLog == IF log = <<>> THEN "" ELSE log[Len(log)]
Cancelled == includes(log, "Cancelled by user. Exiting...")
PickerShown == includes(asked, "url")
GuardAsked == includes(asked, "stacks")
ListingFailed == includes(log, "Error listing stack resources:")

\* The stacks the pattern matches, before any guard.
Matched == filterStacks(Stacks, pattern)

\* The run went past the matcher with at least one matched stack.
PastMatcher == Len(Stacks) > 0 /\ compiles(pattern) /\ Len(Matched) > 0

\* All the items of a stack, page after page in cursor order.
ItemsOf(stack) ==
    LET pages == PagesOf(stack)
    IN  Flatten([k \in 1..Len(pages) |->
                    IF "StackResourceSummaries" \in DOMAIN pages[k]
                    THEN pages[k].StackResourceSummaries ELSE <<>>])

\* What the run ended with, when it ended with one of the fatal conditions.
FatalMessages == {"No stacks found. Exiting...",
                  "No matching stacks found. Exiting...",
                  "No resources found for stack",
                  "An error occurred:",
                  "Error fetching stacks:",
                  "Error listing stack resources:"}

(***************************************************************************)
(* C1.  A run that ends because there are no stacks, no matching stack, no *)
(* resources, an invalid pattern, or a failed describe or list call, ends  *)
(* with exit code 1.                                                       *)
(***************************************************************************)
C1_FatalEndsWithCode1 ==
    (Ended /\ LastLog \in FatalMessages) => exitCode = 1

(***************************************************************************)
(* C2.  A cancellation at a prompt ends the process with exit code 0, and  *)
(* after it no prompt is shown, no CloudFormation call is issued and no    *)
(* URL is handed to the browser.                                           *)
(***************************************************************************)
C2_CancelTerminates ==
    /\ [](Cancelled => (pc = "exited" /\ exitCode = 0))
    /\ [][(Cancelled \/ Cancelled') =>
             (asked' = asked /\ netCalls' = netCalls /\ opens' = opens
              /\ opened' = opened /\ listed' = listed)]_vars

\* The picker is cancelled after a resource was opened.
C2_Witness ==
    Cancelled /\ prompt.name = "url" /\ opens > 0 /\ pc = "exited" /\ exitCode = 0

(***************************************************************************)
(* C3.  A pattern that is no regular expression makes the run fail before  *)
(* any CloudFormation call is issued.                                      *)
(***************************************************************************)
C3_InvalidPatternBeforeNetwork ==
    (pattern /= undefined /\ ~compiles(pattern) /\ LastLog = "An error occurred:")
        => netCalls = 0

(***************************************************************************)
(* C4.  The resources handed to the picker are the items of the stacks of  *)
(* the working set, stack after stack in the order of the working set and, *)
(* within a stack, page after page; the order in which the drains settle   *)
(* does not matter.  (A stack whose listing failed contributes nothing.)   *)
(***************************************************************************)
C4_MergedInWorkingSetOrder ==
    PickerShown =>
        flattenedResources =
            Flatten([i \in 1..Len(matchingStacks) |->
                        IF responses[i].status = "failed" THEN <<>>
                        ELSE ItemsOf(matchingStacks[i])])

\* The picker is shown for several stacks, the first with three pages, after a
\* later stack was drained before an earlier one.
C4_Witness ==
    /\ PickerShown /\ overtaken
    /\ Len(matchingStacks) >= 3
    /\ Len(PagesOf(matchingStacks[1])) = 3
    /\ \A i \in 1..Len(responses) : responses[i].status = "done"

(***************************************************************************)
(* C5.  Once the listing of a stack of the working set has failed, the     *)
(* picker is never displayed and the run ends with exit code 1.            *)
(***************************************************************************)
C5_ListingFailureIsFatal ==
    ListingFailed => (~PickerShown /\ (Ended => exitCode = 1))

(***************************************************************************)
(* C6.  In the build with the guard, the multiselect is shown if and only  *)
(* if more than 8 stacks matched; with 8 or fewer the working set is the   *)
(* list of the matched stacks, in the same order.                          *)
(***************************************************************************)
C6_GuardIffMoreThan8 ==
    (build = "part_000" /\ Len(Stacks) > 0 /\ compiles(pattern)) =>
        \A matched \in {Matched} :
            Len(matched) > 0 =>
                /\ GuardAsked <=> Len(matched) > 8
                /\ Len(matched) <= 8 => matchingStacks = matched
                /\ Len(matched) <= 8 => responseStacks = <<>>

\* Nine stacks matched and the multiselect is on the screen.
C6_Witness ==
    /\ build = "part_000" /\ PastMatcher /\ Len(Matched) = 9
    /\ pc = "prompt" /\ prompt = [type |-> "multiselect", name |-> "stacks"]

(***************************************************************************)
(* C7.  After the user has submitted the multiselect of the guard, the     *)
(* working set is the ticked stacks, in the order they have in the list of *)
(* the matched stacks, and listStackResources is called for them only.     *)
(***************************************************************************)
\* The k-th smallest element of a set of numbers.
Kth(S, k) == CHOOSE x \in S : Cardinality({y \in S : y < x}) = k - 1

C7_WorkingSetIsSelection ==
    responseStacks /= <<>> =>
        \A ticked \in {responseStacks[1]}, matched \in {Matched} :
            /\ Len(responseStacks) = 1
            /\ Len(matchingStacks) = Cardinality(ticked)
            /\ \A k \in 1..Len(matchingStacks) :
                   matchingStacks[k] = matched[Kth(ticked, k)]
            /\ listed = {matched[i].StackName : i \in ticked}
            /\ Len(responses) = Len(matchingStacks)

\* Three stacks that are not neighbours in the list were ticked out of nine,
\* and their resources have arrived.
C7_Witness ==
    /\ responseStacks = <<{2, 5, 9}>>
    /\ Len(Matched) = 9
    /\ PickerShown

(***************************************************************************)
(* C8.  When the user ticks no stack in the multiselect, the working set   *)
(* is empty, listStackResources is not called, and the run ends with "No   *)
(* resources found", not with an error of the guard or of the aggregator.  *)
(***************************************************************************)
C8_EmptySelection ==
    (responseStacks /= <<>> /\ responseStacks[1] = {}) =>
        /\ matchingStacks = <<>>
        /\ listed = {}
        /\ netCalls = 1
        /\ pc = "exited"
        /\ LastLog = "No resources found for stack"
        /\ ~includes(log, "An error occurred:")
        /\ ~includes(log, "Error listing stack resources:")
        /\ ~PickerShown

C8_Witness ==
    /\ responseStacks = <<{}>> /\ Len(Matched) = 9 /\ GuardAsked /\ pc = "exited"

(***************************************************************************)
(* C9.  Every choice of the picker, in every iteration, comes from a       *)
(* resource of the merged list whose type is in the allow-list.            *)
(***************************************************************************)
AllowedTypes == {DynamoDBTable, LambdaFunction, LogsLogGroup, ApiGatewayRestApi}

C9_OnlyAllowListedChoices ==
    PickerShown =>
        /\ Len(choices) = Len(filteredResources)
        /\ \A i \in 1..Len(choices) :
               /\ filteredResources[i].ResourceType \in AllowedTypes
               /\ \E j \in 1..Len(flattenedResources) :
                      flattenedResources[j] = filteredResources[i]
               /\ choices[i].title = title(filteredResources[i])

\* The picker is on the screen for the second time, and the merged list holds
\* a resource of another type.
C9_Witness ==
    /\ pc = "prompt" /\ prompt.name = "url" /\ opens >= 1
    /\ Len(choices) >= 2
    /\ \E j \in 1..Len(flattenedResources) :
           flattenedResources[j].ResourceType \notin AllowedTypes

(***************************************************************************)
(* C10.  The resources of the picker are in ascending order of type, and   *)
(* those of one type in ascending order of logical id.                     *)
(***************************************************************************)
C10_SortedByTypeThenLogicalId ==
    PickerShown =>
        \A i, j \in 1..Len(filteredResources) :
            i < j =>
                /\ ~StrLess(filteredResources[j].ResourceType,
                            filteredResources[i].ResourceType)
                /\ filteredResources[i].ResourceType = filteredResources[j].ResourceType
                       => ~StrLess(filteredResources[j].LogicalResourceId,
                                   filteredResources[i].LogicalResourceId)

(***************************************************************************)
(* The functions of the program applied on their own: a call draws its     *)
(* arguments from the sets below and records what the function returned.   *)
(***************************************************************************)
programVars == <<build, argv, env, pc, exitCode, prompt, profile, match, pattern,
                 region, Stacks, matchingStacks, responses, flattenedResources,
                 filteredResources, choices, opened, log, netCalls, opens, asked,
                 responseStacks, listed, overtaken, openFailed>>

\* The resource types given to constructResourceURL: the four of the table, two
\* types of CloudFormation it has no case for, a type of the table in lower
\* case, the default of the parameter, and no type.
ResourceTypes ==
    {DynamoDBTable, LambdaFunction, LogsLogGroup, ApiGatewayRestApi, S3Bucket, IAMRole,
     <<"a", "w", "s", ":", ":", "l", "a", "m", "b", "d", "a", ":", ":", "f", "u", "n", "c", "t", "i", "o", "n">>,
     <<"u", "n", "k", "n", "o", "w", "n">>, undefined}

\* The physical ids: without "/", with one, with several, "/" alone, the
\* replacement text itself, the empty id, and no id.
PhysicalResourceIds ==
    {<<"t", "b", "l">>, <<"a", "1", "b", "2">>,
     <<"/", "a", "w", "s", "/", "l", "a", "m", "b", "d", "a", "/", "m", "y", "-", "f", "n">>,
     <<"a", "/", "b">>, <<"/">>, <<"/", "/">>, <<"$", "2", "5", "2", "F">>, <<>>, undefined}

Regions == {defaultRegion, usEast1}

CallConstructResourceURL ==
    /\ call.fn = "none"
    /\ \E resourceType \in ResourceTypes, resourceId \in PhysicalResourceIds,
          r \in Regions :
           call' = [fn |-> "constructResourceURL",
                    args |-> [resourceType |-> resourceType,
                              resourceId |-> resourceId, region |-> r],
                    result |-> constructResourceURL(resourceType, resourceId, r)]
    /\ UNCHANGED programVars

\* The stacks given to the matcher: names that hold the pattern at the start,
\* in the middle and at the end, in another letter case, in part only, not at
\* all, and a stack without a name.
MatcherStacks ==
    <<[StackId |-> 1, StackName |-> <<"F", "e", "a", "t", "u", "r", "e", "-", "4", "2", "-", "b", "a", "c", "k", "e", "n", "d">>],
      [StackId |-> 2, StackName |-> <<"f", "e", "a", "t", "u", "r", "e", "-", "4">>],
      [StackId |-> 3, StackName |-> <<"m", "y", "-", "F", "E", "A", "T", "U", "R", "E", "-", "4", "2">>],
      [StackId |-> 4, StackName |-> <<"p", "r", "o", "d", "-", "a", "p", "i">>],
      [StackId |-> 5, StackName |-> undefined],
      [StackId |-> 6, StackName |-> <<"f", "e", "a", "t", "u", "r", "e", "-", "4", "2">>]>>

\* The lists of stacks: every selection of the stacks above, in their order and
\* in the opposite order.
StackLists ==
    {selectedOf(stacks, picked) :
        stacks \in {MatcherStacks,
                    [i \in 1..Len(MatcherStacks) |->
                        MatcherStacks[Len(MatcherStacks) + 1 - i]]},
        picked \in SUBSET (1..Len(MatcherStacks))}

\* The patterns: literal texts.
Patterns == {<<"f", "e", "a", "t", "u", "r", "e", "-", "4", "2">>,
             <<"P", "R", "O", "D">>, <<"4", "2">>,
             <<"e", "-", "4">>, <<"z", "z">>}

CallFilterStacks ==
    /\ call.fn = "none"
    /\ \E stacks \in StackLists, m \in Patterns :
           call' = [fn |-> "filterStacks",
                    args |-> [stacks |-> stacks, match |-> m],
                    result |-> filterStacks(stacks, m)]
    /\ UNCHANGED programVars

\* What fuse.search(input) may return for a list of n titles: the places
\* (refIndex, counted from 1 here) of the titles it finds, each at most once,
\* the best first.  Which titles Fuse.js finds is its own matter: any such list.
searches(n) ==
    {results \in UNION {[1..m -> 1..n] : m \in 0..n} :
        \A i, j \in 1..Len(results) : i /= j => results[i] /= results[j]}

\* suggest without its check of the input: the search decides alone.
suggestWithoutCheck(input, choiceList, results) ==
    [k \in 1..Len(results) |-> choiceList[results[k]]]

\* suggest(input, choices); results is what fuse.search(input) returns.  The
\* Fuse index is built from the titles before the input is looked at.
suggest(input, choiceList, results) ==
    IF ~truthy(input) THEN choiceList
    ELSE [k \in 1..Len(results) |-> choiceList[results[k]]]

\* The choices given to suggest: those of the picker for the first stack, and
\* the beginnings of that list down to the empty one.
ChoiceLists ==
    {SubSeq(all, 1, n) :
        all \in {choicesOf(filteredResourcesOf(ItemsOf(StacksOf(1)[1])), defaultRegion)},
        n \in 0..4}

\* What the user has typed: nothing, or some text.
Inputs == {<<>>, undefined, <<"f", "n">>, <<"z", "z">>}

CallSuggest ==
    /\ call.fn = "none"
    /\ \E input \in Inputs, list \in ChoiceLists :
           \E results \in searches(Len(list)) :
               call' = [fn |-> "suggest",
                        args |-> [input |-> input, choices |-> list],
                        search |-> results,
                        result |-> suggest(input, list, results)]
    /\ UNCHANGED programVars

InitCalls == Init /\ build = "part_000" /\ argv = <<>>

NextCalls ==
    \/ CallConstructResourceURL
    \/ CallFilterStacks
    \/ CallSuggest

SpecCalls == InitCalls /\ [][NextCalls]_vars

(***************************************************************************)
(* C11.  constructResourceURL returns, for a DynamoDB table, a Lambda      *)
(* function, a log group and an API Gateway REST API, the URL of the table *)
(* of URLs with the region and the physical id put in (the id of a log     *)
(* group with its "/" replaced), and undefined for every other type,       *)
(* whatever the physical id and the region.                                *)
(***************************************************************************)
C11_UrlTable ==
    call.fn = "constructResourceURL" =>
        LET type == call.args.resourceType
            id == IF call.args.resourceId = undefined
                  THEN <<"u", "n", "k", "n", "o", "w", "n">>
                  ELSE call.args.resourceId
            escaped == Flatten([i \in 1..Len(id) |->
                          IF id[i] = "/" THEN <<"$", "2", "5", "2", "F">>
                          ELSE <<id[i]>>])
            Fill(template, physicalId) ==
                Flatten([i \in 1..Len(template) |->
                    IF template[i] = "{region}" THEN call.args.region
                    ELSE IF template[i] = "{physicalId}" THEN physicalId
                    ELSE <<template[i]>>])
        IN  /\ type = DynamoDBTable => call.result = Fill(
                <<"h", "t", "t", "p", "s", ":", "/", "/", "{region}", ".", "c", "o", "n",
                  "s", "o", "l", "e", ".", "a", "w", "s", ".", "a", "m", "a", "z", "o",
                  "n", ".", "c", "o", "m", "/", "d", "y", "n", "a", "m", "o", "d", "b",
                  "/", "h", "o", "m", "e", "?", "r", "e", "g", "i", "o", "n", "=",
                  "{region}", "#", "t", "a", "b", "l", "e", "s", ":", "s", "e", "l", "e",
                  "c", "t", "e", "d", "=", "{physicalId}", ";", "t", "a", "b", "=", "o",
                  "v", "e", "r", "v", "i", "e", "w">>, id)
            /\ type = LambdaFunction => call.result = Fill(
                <<"h", "t", "t", "p", "s", ":", "/", "/", "{region}", ".", "c", "o", "n",
                  "s", "o", "l", "e", ".", "a", "w", "s", ".", "a", "m", "a", "z", "o",
                  "n", ".", "c", "o", "m", "/", "l", "a", "m", "b", "d", "a", "/", "h",
                  "o", "m", "e", "?", "r", "e", "g", "i", "o", "n", "=", "{region}", "#",
                  "/", "f", "u", "n", "c", "t", "i", "o", "n", "s", "/", "{physicalId}">>, id)
            /\ type = LogsLogGroup => call.result = Fill(
                <<"h", "t", "t", "p", "s", ":", "/", "/", "{region}", ".", "c", "o", "n",
                  "s", "o", "l", "e", ".", "a", "w", "s", ".", "a", "m", "a", "z", "o",
                  "n", ".", "c", "o", "m", "/", "c", "l", "o", "u", "d", "w", "a", "t",
                  "c", "h", "/", "h", "o", "m", "e", "?", "r", "e", "g", "i", "o", "n",
                  "=", "{region}", "#", "l", "o", "g", "s", "V", "2", ":", "l", "o", "g",
                  "-", "g", "r", "o", "u", "p", "s", "/", "l", "o", "g", "-", "g", "r",
                  "o", "u", "p", "/", "{physicalId}">>, escaped)
            /\ type = ApiGatewayRestApi => call.result = Fill(
                <<"h", "t", "t", "p", "s", ":", "/", "/", "{region}", ".", "c", "o", "n",
                  "s", "o", "l", "e", ".", "a", "w", "s", ".", "a", "m", "a", "z", "o",
                  "n", ".", "c", "o", "m", "/", "a", "p", "i", "g", "a", "t", "e", "w",
                  "a", "y", "/", "m", "a", "i", "n", "/", "a", "p", "i", "s", "/",
                  "{physicalId}", "/", "r", "e", "s", "o", "u", "r", "c", "e", "s", "?",
                  "a", "p", "i", "=", "{physicalId}", "&", "r", "e", "g", "i", "o", "n",
                  "=", "{region}">>, id)
            /\ type \notin {DynamoDBTable, LambdaFunction, LogsLogGroup,
                            ApiGatewayRestApi} => call.result = undefined

\* The URL of a REST API, whose template holds the id twice, was built for the
\* region of the environment.
C11_Witness ==
    /\ call.fn = "constructResourceURL"
    /\ call.args = [resourceType |-> ApiGatewayRestApi,
                    resourceId |-> <<"a", "1", "b", "2">>, region |-> usEast1]
    /\ call.result /= undefined

(***************************************************************************)
(* C12.  In the URL of a log group every "/" of the physical id, not only  *)
(* the first, is replaced by the five characters "$252F", and no other     *)
(* character of the id is changed: "/aws/lambda/my-fn" gives               *)
(* "$252Faws$252Flambda$252Fmy-fn".                                        *)
(***************************************************************************)
\* The URL of the call ends, after "log-group/", with the physical id in which
\* every "/" stands as the first width characters of "$252F" and every other
\* character as itself.
SlashesReplaced(width) ==
    LET id == orUnknown(call.args.resourceId)
        url == call.result
        before(i) == Cardinality({j \in 1..(i - 1) : id[j] = "/"})
        at(i) == i + (width - 1) * before(i)
        length == Len(id) + (width - 1) * before(Len(id) + 1)
        start == Len(url) - length
    IN  /\ start >= 10
        /\ SubSeq(url, start - 9, start)
               = <<"l", "o", "g", "-", "g", "r", "o", "u", "p", "/">>
        /\ \A i \in 1..Len(id) :
               IF id[i] = "/"
               THEN SubSeq(url, start + at(i), start + at(i) + width - 1)
                        = SubSeq(<<"$", "2", "5", "2", "F">>, 1, width)
               ELSE url[start + at(i)] = id[i]

C12_EverySlashFiveCharacters ==
    (call.fn = "constructResourceURL" /\ call.args.resourceType = LogsLogGroup) =>
        /\ SlashesReplaced(5)
        /\ call.args.resourceId = <<"/", "a", "w", "s", "/", "l", "a", "m", "b", "d", "a", "/", "m", "y",
                    "-", "f", "n">>
               => \E tail \in {<<"$", "2", "5", "2", "F", "a", "w", "s", "$", "2", "5",
                                  "2", "F", "l", "a", "m", "b", "d", "a", "$", "2", "5",
                                  "2", "F", "m", "y", "-", "f", "n">>} :
                      SubSeq(call.result, Len(call.result) - Len(tail) + 1,
                             Len(call.result)) = tail

\* The id with three "/" was given.
C12_Witness ==
    /\ call.fn = "constructResourceURL"
    /\ call.args.resourceType = LogsLogGroup
    /\ call.args.resourceId = <<"/", "a", "w", "s", "/", "l", "a", "m", "b", "d", "a", "/", "m", "y",
                    "-", "f", "n">>
    /\ Len(call.result) > 29

\* The claim as it is worded: each "/" replaced by four characters.
C12_EverySlashFourCharacters ==
    (call.fn = "constructResourceURL" /\ call.args.resourceType = LogsLogGroup) =>
        SlashesReplaced(4)

(***************************************************************************)
(* C13.  In the navigation loop every selection is opened: the URL of one  *)
(* of the choices is logged and handed to the browser once, and the picker *)
(* is then on the screen again over the same resources; and the loop ends  *)
(* only when the user cancels, after any number of selections.             *)
(***************************************************************************)
C13_NavigationLoop ==
    [][(pc = "prompt" /\ prompt.name = "url") =>
          /\ opens' /= opens =>
                 /\ opens' = opens + 1
                 /\ \E k \in 1..Len(choices) : opened' = choices[k].value
                 /\ log' = Append(log, "Opening URL")
                 /\ pc' = "prompt" /\ prompt' = prompt
                 /\ asked' = Append(asked, "url")
                 /\ flattenedResources' = flattenedResources
          /\ pc' /= "prompt" =>
                 (Cancelled' /\ pc' = "exited" /\ exitCode' = 0)]_vars

(***************************************************************************)
(* C14.  The matcher keeps exactly the stacks whose name holds the pattern *)
(* somewhere, letter case ignored ("feature-42" keeps                      *)
(* "Feature-42-backend"), in the order they came in, and gives the empty   *)
(* list when no name matches.                                              *)
(***************************************************************************)
C14_MatcherKeepsContaining ==
    call.fn = "filterStacks" =>
        LET stacks == call.args.stacks
            p == call.args.match
            letter(c) == CodeUnit[c] \in (65..90) \cup (97..122)
            sameLetter(a, b) ==
                \/ a = b
                \/ /\ letter(a) /\ letter(b)
                   /\ CodeUnit[a] - CodeUnit[b] \in {32, -32}
            holds(name) ==
                /\ name \notin {undefined, <<>>}
                /\ \E i \in 0..(Len(name) - Len(p)) :
                       \A k \in 1..Len(p) : sameLetter(name[i + k], p[k])
            kept == {i \in 1..Len(stacks) : holds(stacks[i].StackName)}
        IN  /\ Len(call.result) = Cardinality(kept)
            /\ \A k \in 1..Len(call.result) : call.result[k] = stacks[Kth(kept, k)]
            /\ kept = {} => call.result = <<>>
            /\ p = <<"f", "e", "a", "t", "u", "r", "e", "-", "4", "2">>
                   => \A i \in 1..Len(stacks) :
                          stacks[i].StackName = <<"F", "e", "a", "t", "u", "r", "e", "-", "4", "2", "-",
                                    "b", "a", "c", "k", "e", "n", "d">>
                              => includes(call.result, stacks[i])

\* All six stacks were given in the opposite order with the pattern
\* "feature-42", and three were kept.
C14_Witness ==
    /\ call.fn = "filterStacks"
    /\ call.args.match = <<"f", "e", "a", "t", "u", "r", "e", "-", "4", "2">>
    /\ Len(call.args.stacks) = 6 /\ call.args.stacks[1].StackId = 6
    /\ Len(call.result) = 3
    /\ call.result[3].StackName = <<"F", "e", "a", "t", "u", "r", "e", "-", "4", "2", "-",
                                    "b", "a", "c", "k", "e", "n", "d">>

(***************************************************************************)
(* C15.  When the match text is empty (no value of -m and an empty answer  *)
(* to the match prompt) the run ends with exit code 1, and no              *)
(* CloudFormation call is issued.                                          *)
(***************************************************************************)
C15_EmptyMatchExits1 ==
    match = <<>> => (pc = "exited" /\ exitCode = 1 /\ netCalls = 0)

(***************************************************************************)
(* C16.  suggest returns all the choices, unchanged and in their order,    *)
(* when the input is empty; it returns the empty list when there is no     *)
(* choice; and whatever the input, every element it returns is one of the  *)
(* choices it was given.                                                   *)
(***************************************************************************)
C16_SuggestReturnsChoices ==
    call.fn = "suggest" =>
        /\ call.args.input = <<>> => call.result = call.args.choices
        /\ call.args.choices = <<>> => call.result = <<>>
        /\ \A k \in 1..Len(call.result) :
               \E i \in 1..Len(call.args.choices) :
                   call.result[k] = call.args.choices[i]

\* Some text was typed over four choices, and the search found the third and
\* the first of them, in that order.
C16_Witness ==
    /\ call.fn = "suggest"
    /\ call.args.input = <<"f", "n">>
    /\ Len(call.args.choices) = 4
    /\ call.search = <<3, 1>>
    /\ call.result = <<call.args.choices[3], call.args.choices[1]>>

(***************************************************************************)
(* C17.  When the listing of one stack fails while the drains of other     *)
(* stacks are in flight, those drains run to completion before the run     *)
(* ends; and the results are merged only when every drain has completed    *)
(* or failed.                                                              *)
(***************************************************************************)
C17_OtherDrainsComplete ==
    /\ [][(pc = "draining" /\ ListingFailed' /\ Ended') =>
             Cardinality({i \in 1..Len(responses) :
                             responses[i].status = "pending"}) <= 1]_vars
    /\ []((\/ flattenedResources /= <<>>
           \/ PickerShown
           \/ includes(log, "Resources found for match")
           \/ includes(log, "No resources found for stack"))
              => settled(responses))

(***************************************************************************)
(* C18.  A failure of the browser-open call does not end the process: the  *)
(* call is not awaited, and the picker is on the screen again until the    *)
(* user cancels.                                                           *)
(***************************************************************************)
C18_OpenFailureNotFatal ==
    openFailed => ((pc = "prompt" /\ prompt.name = "url") \/ Cancelled)

(***************************************************************************)
(* C19.  For each stack the pages are asked for one at a time in cursor    *)
(* order, the next one only after the one before has arrived; the drain    *)
(* ends exactly when a page carries no next cursor; and the resources of   *)
(* the stack are the items of its pages, page after page, each once.       *)
(***************************************************************************)
C19_PagesInCursorOrder ==
    responses /= <<>> =>
        LET pagesOf(i) == PagesOf(matchingStacks[i])
            items(page) == IF "StackResourceSummaries" \in DOMAIN page
                           THEN page.StackResourceSummaries ELSE <<>>
            \* the calls issued for stack i: one per page that has arrived, and
            \* one more while the drain waits for a page or has failed
            requests(i) == IF responses[i].status = "done"
                           THEN responses[i].page ELSE responses[i].page + 1
            total[n \in 0..Len(responses)] ==
                IF n = 0 THEN 0 ELSE total[n - 1] + requests(n)
        IN  /\ Len(responses) = Len(matchingStacks)
            /\ \A i \in 1..Len(responses) :
                   \E r \in {responses[i]}, pages \in {pagesOf(i)} :
                       /\ r.page <= Len(pages)
                       /\ r.resources = Flatten([k \in 1..r.page |-> items(pages[k])])
                       /\ \A k \in 1..(r.page - 1) : "NextToken" \in DOMAIN pages[k]
                       /\ r.status = "done"
                              <=> (r.page >= 1 /\ "NextToken" \notin DOMAIN pages[r.page])
            /\ netCalls = 1 + total[Len(responses)]

\* The three pages of the first stack have arrived and its drain has ended,
\* while the drain of the third stack, whose first page held a cursor and no
\* item, waits for its second page.
C19_Witness ==
    /\ pc = "draining" /\ Len(responses) >= 3
    /\ responses[1].status = "done" /\ responses[1].page = 3
    /\ Len(responses[1].resources) = 5
    /\ matchingStacks[3].StackId = 3
    /\ responses[3].status = "pending" /\ responses[3].page = 1
    /\ responses[3].resources = <<>>

(***************************************************************************)
(* C20.  The filter and sort of openResource gives its own output back     *)
(* when applied to it, and leaves the merged list as the aggregator built  *)
(* it; so the picker shows the same choices in the same order each time    *)
(* it comes back.                                                          *)
(***************************************************************************)
C20_FilterSortIdempotent ==
    /\ []((pc = "prompt" /\ prompt.name = "url") =>
             /\ filteredResourcesOf(filteredResources) = filteredResources
             /\ flattenedResources = reduce(responses))
    /\ [][PickerShown =>
             /\ flattenedResources' = flattenedResources
             /\ filteredResources' = filteredResources
             /\ choices' = choices]_vars

\* The picker is on the screen for the third time, with two resources of one
\* type among its choices and a merged list that was neither filtered nor in
\* order.
C20_Witness ==
    /\ pc = "prompt" /\ prompt.name = "url" /\ opens = 2
    /\ \E i \in 1..Len(filteredResources) :
           /\ i < Len(filteredResources)
           /\ filteredResources[i].ResourceType = filteredResources[i + 1].ResourceType
    /\ Len(filteredResources) < Len(flattenedResources)
    /\ flattenedResources[1] /= filteredResources[1]

(***************************************************************************)
(* C21.  Whenever the resource picker is on the screen it offers at least  *)
(* one choice: a working set whose resources are all of types outside the  *)
(* allow-list ends with "No resources found for stack" and never reaches   *)
(* a picker without choices.                                               *)
(***************************************************************************)
C21_PickerOffersAChoice ==
    (pc = "prompt" /\ prompt.name = "url") =>
        /\ Len(choices) >= 1
        /\ \E j \in 1..Len(flattenedResources) : allowed(flattenedResources[j])

(***************************************************************************)
(* C22.  Every choice of the picker carries a URL: for each resource that  *)
(* passed the filter, with or without a physical id, the value of its      *)
(* choice is what constructResourceURL gives for it, and that is an        *)
(* address of the console of the region, never undefined.                  *)
(***************************************************************************)
C22_EveryChoiceHasUrl ==
    PickerShown =>
        /\ Len(choices) = Len(filteredResources)
        /\ \A k \in 1..Len(choices) :
               /\ choices[k].value =
                      constructResourceURL(filteredResources[k].ResourceType,
                                           filteredResources[k].PhysicalResourceId,
                                           region)
               /\ choices[k].value /= undefined
               /\ StartsWith(choices[k].value, baseUrl(region) \o <<"/">>)

\* The picker is on the screen with choices of all four types of the
\* allow-list, one of them for a resource without a physical id, and the
\* merged list holds a resource the resolver has no rule for.
C22_Witness ==
    /\ pc = "prompt" /\ prompt.name = "url"
    /\ \A t \in AllowedTypes :
           \E k \in 1..Len(filteredResources) : filteredResources[k].ResourceType = t
    /\ \E k \in 1..Len(filteredResources) :
           /\ filteredResources[k].PhysicalResourceId = undefined
           /\ choices[k].value /= undefined
    /\ \E j \in 1..Len(flattenedResources) :
           constructResourceURL(flattenedResources[j].ResourceType,
                                flattenedResources[j].PhysicalResourceId,
                                region) = undefined

====
